---- MODULE Spec2Model ----
(***************************************************************************)
(* mongozen: the Schema engine (src/src/schema.ts).                        *)
(*                                                                         *)
(* A Schema is constructed once from a raw declaration; processDefinition  *)
(* normalises it into the canonical tree `definition`.  applyDefaults and  *)
(* validate then walk that tree over documents, which are JavaScript       *)
(* objects living in a heap (objects have identity, so sharing and         *)
(* mutation are visible).                                                   *)
(***************************************************************************)
EXTENDS Integers, Sequences, FiniteSets, TLC

VARIABLES
    originalDefinition, \* the raw declaration the constructor was given
    schema,     \* the Schema object: [ok, definition, error]
    heap,       \* the JavaScript heap: a sequence of objects, address = index
    doc,        \* the document the caller built (a value), Undefined before
    results,    \* the documents applyDefaults returned, oldest first
    call,       \* the last call and its outcome
    collection, \* the documents insertOne was given, oldest first
    connection, \* the Connection object and the driver's clients
    logger      \* the ConsoleLogger: [level, written]

vars == <<originalDefinition, schema, heap, doc, results, call, collection,
          connection, logger>>

(***************************************************************************)
(* Bounds of the model.                                                    *)
(***************************************************************************)
MaxApply == 2       \* applyDefaults calls in one behaviour
MaxClock == 1       \* Date.now() returns a time in 0..MaxClock
MaxItems == 1       \* a caller appends to an array shorter than this
MaxInsert == 2      \* documents Model.create stores in one behaviour
MaxCalls == 3       \* calls made on one Connection in one behaviour
MaxLog == 2         \* lines a caller makes the logger write in one behaviour

(***************************************************************************)
(* JavaScript values.  A primitive is a record [t, n, s]; an object is a   *)
(* reference into the heap.  Functions are identified by their name.       *)
(***************************************************************************)
Undefined == [t |-> "undefined", n |-> 0, s |-> ""]
Null      == [t |-> "null", n |-> 0, s |-> ""]
Str(x)    == [t |-> "string", n |-> 0, s |-> x]
Num(k)    == [t |-> "number", n |-> k, s |-> ""]
NaN       == [t |-> "number", n |-> 0, s |-> "NaN"]
Bool(b)   == [t |-> "boolean", n |-> IF b THEN 1 ELSE 0, s |-> ""]
Fn(name)  == [t |-> "function", n |-> 0, s |-> name]
RegExp(x) == [t |-> "regexp", n |-> 0, s |-> x]
Ref(a)    == [t |-> "ref", n |-> a, s |-> ""]
\* an array literal that is part of a schema declaration (enum: [...])
Arr(xs)   == [t |-> "array", n |-> 0, s |-> "", items |-> xs]

\* An object of the heap: its class and its own properties in insertion
\* order.  A Date keeps its time value in the internal slot "[[time]]".
Obj(class, props) == [class |-> class, props |-> props]
Prop(k, v) == [k |-> k, v |-> v]

IsNullish(v) == v = Undefined \/ v = Null

\* typeof v
TypeOf(h, v) ==
    CASE v.t = "undefined" -> "undefined"
      [] v.t = "null"      -> "object"
      [] v.t = "ref"       -> "object"
      [] v.t = "regexp"    -> "object"
      [] v.t = "array"     -> "object"
      [] v.t = "decl"      -> "object"
      [] OTHER             -> v.t

\* Array.isArray(v)
IsArray(h, v) ==
    \/ v.t = "array"
    \/ v.t = "ref" /\ h[v.n].class = "Array"

\* JavaScript truthiness
Truthy(v) ==
    CASE v.t = "undefined" -> FALSE
      [] v.t = "null"      -> FALSE
      [] v.t = "boolean"   -> v.n = 1
      [] v.t = "number"    -> v.s # "NaN" /\ v.n # 0
      [] v.t = "string"    -> v.s # ""
      [] OTHER             -> TRUE

\* Object.keys(o): the own property names, in insertion order
Keys(o) == [i \in 1..Len(o.props) |-> o.props[i].k]

HasOwn(o, k) == \E i \in 1..Len(o.props) : o.props[i].k = k

\* o[k]: undefined when the property is absent
Get(o, k) ==
    IF HasOwn(o, k)
    THEN o.props[CHOOSE i \in 1..Len(o.props) : o.props[i].k = k].v
    ELSE Undefined

\* o[k] = v: an existing property keeps its place, a new one goes last
Put(o, k, v) ==
    IF HasOwn(o, k)
    THEN [o EXCEPT !.props =
            [i \in 1..Len(o.props) |->
                IF o.props[i].k = k THEN Prop(k, v) ELSE o.props[i]]]
    ELSE [o EXCEPT !.props = Append(o.props, Prop(k, v))]

\* delete o[k]
RECURSIVE Without(_, _)
Without(props, k) ==
    IF props = <<>> THEN <<>>
    ELSE IF Head(props).k = k THEN Without(Tail(props), k)
    ELSE <<Head(props)>> \o Without(Tail(props), k)

Delete(o, k) == [o EXCEPT !.props = Without(o.props, k)]

\* The value a reference denotes, with every object it reaches expanded:
\* two values are deep-equal iff their expansions are equal.
RECURSIVE Deep(_, _)
Deep(h, v) ==
    IF v.t # "ref" THEN v
    ELSE [t |-> "object", n |-> 0, s |-> h[v.n].class,
          props |-> [i \in 1..Len(h[v.n].props) |->
                        Prop(h[v.n].props[i].k, Deep(h, h[v.n].props[i].v))]]

(***************************************************************************)
(* The type registry.                                                      *)
(***************************************************************************)
TypeNames ==
    <<"ObjectId", "Buffer", "Map", "BigInt", "String", "Number", "Boolean",
      "Date", "Array", "Mixed">>

\* A plausible slip: the check of the type tag is left out
IsTypeNameAny(x) == TRUE

\* Object.keys(DefaultValidations).includes(x)
IsTypeName(x) == \E i \in 1..Len(TypeNames) : TypeNames[i] = x

\* The strings of the model that /^[0-9a-fA-F]{24}$/ matches
Hex24 == {"507f1f77bcf86cd799439011"}

\* val.toString is callable: false for an object with a null prototype
HasToString(h, v) == ~(v.t = "ref" /\ h[v.n].class = "NullProto")

\* val.toString(), for the values that have one
ToStringJS(h, v) ==
    CASE v.t = "string"  -> v.s
      [] v.t = "number"  -> IF v.s = "NaN" THEN "NaN" ELSE ToString(v.n)
      [] v.t = "boolean" -> IF v.n = 1 THEN "true" ELSE "false"
      [] v.t = "ref"     ->
            IF h[v.n].class = "Array"
            THEN (IF h[v.n].props = <<>> THEN "" ELSE "[array]")
            ELSE IF h[v.n].class = "Date" THEN "[date]"
            ELSE "[object Object]"
      [] OTHER           -> "[" \o v.t \o "]"

\* A call of a predicate either returns a boolean or throws
Returned(b) == [threw |-> FALSE, ok |-> b, error |-> ""]
Thrown(msg) == [threw |-> TRUE, ok |-> FALSE, error |-> msg]

\* DefaultValidations[typeName](val)
DefaultValidations(h, typeName, val) ==
    CASE typeName = "ObjectId" ->
            IF IsNullish(val)
            THEN Thrown("TypeError: Cannot read properties of " \o val.t)
            ELSE IF ~HasToString(h, val)
            THEN Thrown("TypeError: val.toString is not a function")
            ELSE Returned(ToStringJS(h, val) \in Hex24)
      [] typeName = "Buffer"  -> Returned(val.t = "ref" /\ h[val.n].class = "Buffer")
      [] typeName = "Map"     -> Returned(val.t = "ref" /\ h[val.n].class = "Map")
      [] typeName = "BigInt"  -> Returned(val.t = "bigint")
      [] typeName = "String"  -> Returned(val.t = "string")
      [] typeName = "Number"  -> Returned(val.t = "number" /\ val.s # "NaN")
      [] typeName = "Boolean" -> Returned(val.t = "boolean")
      [] typeName = "Date"    ->
            Returned(/\ val.t = "ref"
                     /\ h[val.n].class = "Date"
                     /\ Get(h[val.n], "[[time]]") # NaN)
      [] typeName = "Array"   -> Returned(IsArray(h, val))
      [] typeName = "Mixed"   -> Returned(TRUE)
      [] OTHER -> Thrown("TypeError: DefaultValidations[typeDef] is not a function")

(***************************************************************************)
(* Schema declarations and the canonical tree.                             *)
(*                                                                         *)
(* A raw declaration is an object literal Decl(props); the value of a      *)
(* property is a JavaScript value, an array literal Arr(items) or another  *)
(* object literal.  The canonical tree is a sequence of Prop(name, node),  *)
(* a node being a leaf (the standardized field definition object) or a     *)
(* nested tree.                                                            *)
(***************************************************************************)
Decl(props) == [t |-> "decl", n |-> 0, s |-> "", props |-> props]

\* The properties of a field definition object that the engine reads
AttrNames ==
    {"type", "required", "default", "validate", "enum", "minLength",
     "maxLength", "pattern", "min", "max", "message", "arrayType"}

\* The own properties of an object of a declaration, as an object literal
Literal(h, v) ==
    IF v.t = "decl" THEN v
    ELSE IF v.t = "ref" THEN Decl(h[v.n].props)
    ELSE Decl(<<>>)

\* The elements of an array
Items(h, v) ==
    IF v.t = "array" THEN v.items
    ELSE [i \in 1..Len(h[v.n].props) |-> h[v.n].props[i].v]

Leaf(attrs) == [node |-> "leaf", attrs |-> attrs]
Nested(fields) == [node |-> "nested", fields |-> fields]

\* fieldDef[a], for a node of the canonical tree: a leaf's property, or
\* the nested field of that name (an object) of a nested tree
Attr(fieldDef, a) ==
    IF fieldDef.node = "leaf" THEN fieldDef.attrs[a]
    ELSE IF \E i \in 1..Len(fieldDef.fields) : fieldDef.fields[i].k = a
    THEN [t |-> "object", n |-> 0, s |-> "schema"]
    ELSE Undefined

\* Object.assign({}, {type: 'Mixed', required: false, default: undefined,
\*               validate: undefined}, src)
AssignDefaults(src) ==
    [a \in AttrNames |->
        IF HasOwn(src, a) THEN Get(src, a)
        ELSE IF a = "type" THEN Str("Mixed")
        ELSE IF a = "required" THEN Bool(FALSE)
        ELSE Undefined]

\* fieldDef[0]?.name || 'Mixed'
ArrayTypeOf(items) ==
    IF items # <<>> /\ items[1].t = "function" /\ items[1].s # ""
    THEN Str(items[1].s) ELSE Str("Mixed")

\* the field definition object of the array-literal shorthand
ArrayLeaf(items) ==
    Leaf([a \in AttrNames |->
            IF a = "type" THEN Str("Array")
            ELSE IF a = "required" THEN Bool(FALSE)
            ELSE IF a = "arrayType" THEN ArrayTypeOf(items)
            ELSE Undefined])

\* `${x}` for the values a declaration can hold as a type
Show(v) ==
    CASE v.t = "string"    -> v.s
      [] v.t = "number"    -> IF v.s = "NaN" THEN "NaN" ELSE ToString(v.n)
      [] v.t = "undefined" -> "undefined"
      [] v.t = "null"      -> "null"
      [] v.t = "boolean"   -> IF v.n = 1 THEN "true" ELSE "false"
      [] v.t = "regexp"    -> "/" \o v.s \o "/"
      [] v.t = "array"     -> IF v.items = <<>> THEN "" ELSE "[array]"
      [] OTHER             -> "[object Object]"

\* Lines 102-135: standardize one field declaration and validate it
StandardField(h, fieldDef) ==
    LET src  == IF TypeOf(h, fieldDef) = "object" /\ ~IsArray(h, fieldDef)
                THEN Literal(h, fieldDef)
                ELSE Decl(<<Prop("type", fieldDef)>>)
        obj0 == AssignDefaults(src)
        obj  == IF obj0["type"].t = "function"
                THEN [obj0 EXCEPT !["type"] = Str(obj0["type"].s)]
                ELSE obj0
    IN  IF ~(obj["type"].t = "string" /\ IsTypeName(obj["type"].s))
        THEN [threw |-> TRUE, error |-> "Invalid type: " \o Show(obj["type"]),
              node |-> Leaf(obj)]
        ELSE IF Truthy(obj["validate"]) /\ obj["validate"].t # "function"
        THEN [threw |-> TRUE, error |-> "Validation function must be a function",
              node |-> Leaf(obj)]
        ELSE IF obj["required"] # Undefined /\ obj["required"].t # "boolean"
        THEN [threw |-> TRUE, error |-> "Required property must be a boolean",
              node |-> Leaf(obj)]
        ELSE [threw |-> FALSE, error |-> "", node |-> Leaf(obj)]

\* Schema.processDefinition(def): the fields are processed in
\* Object.keys(def) order and the first failure aborts the whole call
RECURSIVE processDefinition(_, _)
RECURSIVE processFields(_, _, _)
processFields(h, props, processed) ==
    IF props = <<>>
    THEN [threw |-> FALSE, error |-> "", fields |-> processed]
    ELSE
      LET field    == Head(props).k
          fieldDef == Head(props).v
      IN  IF IsNullish(fieldDef)
          THEN [threw |-> TRUE, error |-> "Definition cannot be undefined or null",
                fields |-> <<>>]
          ELSE IF IsArray(h, fieldDef)
          THEN processFields(h, Tail(props),
                    Append(processed, Prop(field, ArrayLeaf(Items(h, fieldDef)))))
          ELSE IF /\ TypeOf(h, fieldDef) = "object"
                  /\ ~HasOwn(Literal(h, fieldDef), "type")
          THEN LET sub == processDefinition(h, Literal(h, fieldDef))
               IN  IF sub.threw THEN sub
                   ELSE processFields(h, Tail(props),
                            Append(processed, Prop(field, Nested(sub.fields))))
          ELSE LET std == StandardField(h, fieldDef)
               IN  IF std.threw
                   THEN [threw |-> TRUE, error |-> std.error, fields |-> <<>>]
                   ELSE processFields(h, Tail(props),
                            Append(processed, Prop(field, std.node)))

processDefinition(h, def) == processFields(h, def.props, <<>>)

\* new Schema(definition): lines 44-67
NewSchema(h, definition) ==
    IF ~Truthy(definition)
    THEN [ok |-> FALSE, error |-> "Schema definition is required", definition |-> <<>>]
    ELSE IF TypeOf(h, definition) # "object"
    THEN [ok |-> FALSE, error |-> "Schema definition must be an object", definition |-> <<>>]
    ELSE LET p == processDefinition(h, definition)
         IN  IF p.threw
             THEN [ok |-> FALSE, error |-> p.error, definition |-> <<>>]
             ELSE [ok |-> TRUE, error |-> "", definition |-> p.fields]

(***************************************************************************)
(* validate.                                                               *)
(*                                                                         *)
(* The errors array of a validate call is threaded through the walk.  An   *)
(* error carries, besides field and message, the check that pushed it; the  *)
(* walk also records every check it runs (steps).  Both are observations   *)
(* of the run, not data of the program.  Once an exception escapes         *)
(* (threw) nothing more of the call runs.                                  *)
(***************************************************************************)
Violation(path, msg, check) == [field |-> path, message |-> msg, check |-> check]
Step(path, check) == [field |-> path, check |-> check]

NoErrors == [errors |-> <<>>, steps |-> <<>>, threw |-> FALSE, error |-> ""]

\* A plausible slip: errors.unshift(...) in place of errors.push(...)
PushFront(acc, path, msg, check) ==
    [acc EXCEPT !.errors = <<Violation(path, msg, check)>> \o @]

\* errors.push({ field, message })
Push(acc, path, msg, check) ==
    [acc EXCEPT !.errors = Append(@, Violation(path, msg, check))]
Ran(acc, path, check) == [acc EXCEPT !.steps = Append(@, Step(path, check))]
Raise(acc, msg) == [acc EXCEPT !.threw = TRUE, !.error = msg]

\* typeof fieldDef === 'object' && !Array.isArray(fieldDef) && !fieldDef.type
IsSubSchema(fieldDef) == ~Truthy(Attr(fieldDef, "type"))

\* items.join(', ')
RECURSIVE Join(_)
Join(items) ==
    IF items = <<>> THEN ""
    ELSE IF Len(items) = 1 THEN (IF IsNullish(items[1]) THEN "" ELSE Show(items[1]))
    ELSE (IF IsNullish(items[1]) THEN "" ELSE Show(items[1]))
            \o ", " \o Join(Tail(items))

\* The custom validators of the model, by name: what validate(value) does
CallValidator(h, fn, value) ==
    CASE fn.s = "accept"      -> Returned(TRUE)
      [] fn.s = "reject"      -> Returned(FALSE)
      [] fn.s = "isShort"     -> Returned(value.t = "string" /\ Len(value.s) <= 1)
      [] fn.s = "throwsError" -> Thrown("Validation error")
      [] OTHER                -> Returned(TRUE)

\* The patterns of the model: pattern.test(value) for a string value
PatternTest(pattern, value) ==
    CASE pattern.s = "^a" -> value.s \in {"a", "ab", "abc"}
      [] OTHER            -> TRUE

\* value.length of a string or an array
LengthOf(h, value) ==
    IF value.t = "string" THEN Len(value.s) ELSE Len(Items(h, value))

\* a < b on numbers (a comparison with NaN is false)
Less(a, b) == a.t = "number" /\ b.t = "number" /\ a.s # "NaN" /\ b.s # "NaN" /\ a.n < b.n

\* Lines 271-277: the enum check
CheckEnum(h, fieldDef, value, fullPath, acc) ==
    LET enum == Attr(fieldDef, "enum")
    IN  IF ~Truthy(enum) THEN acc
        ELSE IF enum.t # "array"
        THEN Raise(Ran(acc, fullPath, "enum"),
                   "TypeError: fieldDef.enum.includes is not a function")
        ELSE IF \E i \in 1..Len(enum.items) : enum.items[i] = value
        THEN Ran(acc, fullPath, "enum")
        ELSE Push(Ran(acc, fullPath, "enum"), fullPath,
                  fullPath \o " must be one of: " \o Join(enum.items), "enum")

\* Lines 279-304: the string constraints
CheckMinLength(h, fieldDef, value, fullPath, acc) ==
    LET minLength == Attr(fieldDef, "minLength")
    IN  IF minLength = Undefined THEN acc
        ELSE IF Less(Num(LengthOf(h, value)), minLength)
        THEN Push(Ran(acc, fullPath, "minLength"), fullPath,
                  fullPath \o " must be at least " \o Show(minLength)
                           \o " characters long", "minLength")
        ELSE Ran(acc, fullPath, "minLength")

CheckMaxLength(h, fieldDef, value, fullPath, acc) ==
    LET maxLength == Attr(fieldDef, "maxLength")
    IN  IF maxLength = Undefined THEN acc
        ELSE IF Less(maxLength, Num(LengthOf(h, value)))
        THEN Push(Ran(acc, fullPath, "maxLength"), fullPath,
                  fullPath \o " must be at most " \o Show(maxLength)
                           \o " characters long", "maxLength")
        ELSE Ran(acc, fullPath, "maxLength")

CheckPattern(h, fieldDef, value, fullPath, acc) ==
    LET pattern == Attr(fieldDef, "pattern")
    IN  IF ~Truthy(pattern) THEN acc
        ELSE IF pattern.t # "regexp"
        THEN Raise(Ran(acc, fullPath, "pattern"),
                   "TypeError: fieldDef.pattern.test is not a function")
        ELSE IF PatternTest(pattern, value)
        THEN Ran(acc, fullPath, "pattern")
        ELSE Push(Ran(acc, fullPath, "pattern"), fullPath,
                  fullPath \o " must match the pattern " \o Show(pattern), "pattern")

CheckString(h, fieldDef, value, fullPath, acc) ==
    IF Attr(fieldDef, "type") # Str("String") THEN acc
    ELSE LET a1 == CheckMinLength(h, fieldDef, value, fullPath, acc)
             a2 == CheckMaxLength(h, fieldDef, value, fullPath, a1)
             a3 == CheckPattern(h, fieldDef, value, fullPath, a2)
         IN  a3

\* Lines 306-323: the number constraints
CheckMin(fieldDef, value, fullPath, acc) ==
    LET min == Attr(fieldDef, "min")
    IN  IF min = Undefined THEN acc
        ELSE IF Less(value, min)
        THEN Push(Ran(acc, fullPath, "min"), fullPath,
                  fullPath \o " must be at least " \o Show(min), "min")
        ELSE Ran(acc, fullPath, "min")

CheckMax(fieldDef, value, fullPath, acc) ==
    LET max == Attr(fieldDef, "max")
    IN  IF max = Undefined THEN acc
        ELSE IF Less(max, value)
        THEN Push(Ran(acc, fullPath, "max"), fullPath,
                  fullPath \o " must be at most " \o Show(max), "max")
        ELSE Ran(acc, fullPath, "max")

CheckNumber(fieldDef, value, fullPath, acc) ==
    IF Attr(fieldDef, "type") # Str("Number") THEN acc
    ELSE CheckMax(fieldDef, value, fullPath,
                  CheckMin(fieldDef, value, fullPath, acc))

\* Lines 332-381: one element of an array value against the element
\* definition itemDef = fieldDef.type[0]
CheckItem(h, itemDef, item, path, acc) ==
    LET itemType == Get(itemDef, "type")
        typeOk   == IF itemType.t = "string" /\ IsTypeName(itemType.s)
                    THEN DefaultValidations(h, itemType.s, item)
                    ELSE Thrown("TypeError: DefaultValidations[itemType] is not a function")
        minLength == Get(itemDef, "minLength")
        maxLength == Get(itemDef, "maxLength")
        min == Get(itemDef, "min")
        max == Get(itemDef, "max")
        a0 == Ran(acc, path, "itemType")
        a1 == IF itemType = Str("String") /\ minLength # Undefined
                 /\ Less(Num(LengthOf(h, item)), minLength)
              THEN Push(a0, path, path \o " must be at least " \o Show(minLength)
                                       \o " characters long", "itemMinLength")
              ELSE a0
        a2 == IF itemType = Str("String") /\ maxLength # Undefined
                 /\ Less(maxLength, Num(LengthOf(h, item)))
              THEN Push(a1, path, path \o " must be at most " \o Show(maxLength)
                                       \o " characters long", "itemMaxLength")
              ELSE a1
        a3 == IF itemType = Str("Number") /\ min # Undefined /\ Less(item, min)
              THEN Push(a2, path, path \o " must be at least " \o Show(min), "itemMin")
              ELSE a2
        a4 == IF itemType = Str("Number") /\ max # Undefined /\ Less(max, item)
              THEN Push(a3, path, path \o " must be at most " \o Show(max), "itemMax")
              ELSE a3
    IN  IF typeOk.threw THEN Raise(a0, typeOk.error)
        ELSE IF ~typeOk.ok
        THEN Push(a0, path, path \o " must be of type " \o Show(itemType), "itemType")
        ELSE a4

RECURSIVE CheckItems(_, _, _, _, _, _)
CheckItems(h, itemDef, items, index, fullPath, acc) ==
    IF index >= Len(items) \/ acc.threw THEN acc
    ELSE CheckItems(h, itemDef, items, index + 1, fullPath,
            CheckItem(h, itemDef, items[index + 1],
                      fullPath \o "[" \o ToString(index) \o "]", acc))

\* Lines 325-383: the elements of an array value are validated only when
\* fieldDef.type is itself a non-empty array
CheckArray(h, fieldDef, value, fullPath, acc) ==
    LET type == Attr(fieldDef, "type")
    IN  IF /\ type = Str("Array")
           /\ IsArray(h, value)
           /\ IsArray(h, type)
           /\ Len(Items(h, type)) > 0
        THEN CheckItems(h, Literal(h, Items(h, type)[1]), Items(h, value), 0,
                        fullPath, acc)
        ELSE acc

\* Lines 385-398: the custom validator
CheckCustom(h, fieldDef, value, fullPath, acc) ==
    LET fn == Attr(fieldDef, "validate")
        message == Attr(fieldDef, "message")
    IN  IF ~(Truthy(fn) /\ fn.t = "function") THEN acc
        ELSE LET r == CallValidator(h, fn, value)
                 a == Ran(acc, fullPath, "custom")
             IN  IF r.threw THEN Push(a, fullPath, r.error, "custom")
                 ELSE IF r.ok THEN a
                 ELSE Push(a, fullPath,
                           IF Truthy(message) THEN Show(message)
                           ELSE "Field '" \o fullPath \o "' failed custom validation",
                           "custom")

\* Lines 271-398: the checks that follow a passed type check
CheckConstraints(h, fieldDef, value, fullPath, acc) ==
    LET a1 == CheckEnum(h, fieldDef, value, fullPath, acc)
        a2 == IF a1.threw THEN a1 ELSE CheckString(h, fieldDef, value, fullPath, a1)
        a3 == IF a2.threw THEN a2 ELSE CheckNumber(fieldDef, value, fullPath, a2)
        a4 == IF a3.threw THEN a3 ELSE CheckArray(h, fieldDef, value, fullPath, a3)
    IN  IF a4.threw THEN a4 ELSE CheckCustom(h, fieldDef, value, fullPath, a4)

\* Line 249: fieldDef.required && (value === undefined || value === null)
RequiredMissing(fieldDef, value) ==
    Truthy(Attr(fieldDef, "required")) /\ IsNullish(value)

\* A plausible slip: only undefined is skipped
SkipOptionalStrict(value) == value = Undefined

\* Line 255: value === undefined || value === null
SkipOptional(value) == IsNullish(value)

\* Lines 248-398: the checks of a leaf field, in the order of the code
ValidateLeaf(h, fieldDef, value, fullPath, acc) ==
    LET typeDef == Attr(fieldDef, "type").s
    IN  IF RequiredMissing(fieldDef, value)
        THEN Push(Ran(acc, fullPath, "required"), fullPath,
                  fullPath \o " is required", "required")
        ELSE IF SkipOptional(value) THEN acc
        ELSE
          LET t  == IF typeDef # "Mixed"
                    THEN DefaultValidations(h, typeDef, value) ELSE Returned(TRUE)
              a0 == IF typeDef # "Mixed" THEN Ran(acc, fullPath, "type") ELSE acc
          IN  IF t.threw THEN Raise(a0, t.error)
              ELSE IF ~t.ok
              THEN Push(a0, fullPath, fullPath \o " must be of type " \o typeDef, "type")
              ELSE CheckConstraints(h, fieldDef, value, fullPath, a0)

\* Lines 226-230: the required nested fields of a missing sub-document
RECURSIVE RequiredNested(_, _, _)
RequiredNested(fields, fullPath, acc) ==
    IF fields = <<>> THEN acc
    ELSE LET path == fullPath \o "." \o Head(fields).k
         IN  RequiredNested(Tail(fields), fullPath,
                IF Truthy(Attr(Head(fields).v, "required"))
                THEN Push(Ran(acc, path, "required"), path,
                          path \o " is required", "required")
                ELSE acc)

\* validateField(field, fieldDef, value, parentPath): lines 218-399
RECURSIVE validateField(_, _, _, _, _, _)
RECURSIVE validateFields(_, _, _, _, _)
validateField(h, field, fieldDef, value, parentPath, acc) ==
    LET fullPath == IF parentPath # "" THEN parentPath \o "." \o field ELSE field
    IN  IF acc.threw THEN acc
        ELSE IF IsSubSchema(fieldDef)
        THEN IF IsNullish(value)
             THEN RequiredNested(fieldDef.fields, fullPath, acc)
             ELSE IF TypeOf(h, value) # "object" \/ IsArray(h, value)
             THEN Push(Ran(acc, fullPath, "object"), fullPath,
                       fullPath \o " must be an object", "object")
             ELSE validateFields(h, fieldDef.fields, value, fullPath, acc)
        ELSE ValidateLeaf(h, fieldDef, value, fullPath, acc)

\* Object.keys(fields).forEach(f => validateField(f, fields[f], value[f], path)):
\* lines 241-243 and 402-404.  Reading a property of undefined or null throws.
validateFields(h, fields, value, path, acc) ==
    IF fields = <<>> \/ acc.threw THEN acc
    ELSE IF IsNullish(value)
    THEN Raise(acc, "TypeError: Cannot read properties of " \o value.t)
    ELSE validateFields(h, Tail(fields), value, path,
            validateField(h, Head(fields).k, Head(fields).v,
                          Get(Literal(h, value), Head(fields).k), path, acc))

\* Schema.validate(doc): lines 214-410
validate(h, definition, d) ==
    LET acc == validateFields(h, definition, d, "", NoErrors)
    IN  [threw   |-> acc.threw,
         error   |-> acc.error,
         isValid |-> ~acc.threw /\ acc.errors = <<>>,
         errors  |-> IF acc.threw THEN <<>> ELSE acc.errors,
         steps   |-> acc.steps]

(***************************************************************************)
(* applyDefaults.                                                          *)
(***************************************************************************)
\* The producer functions of the model, by name: what default() returns,
\* and the heap after the call (a producer may allocate)
CallProducer(h, fn, now) ==
    CASE fn.s = "now"      -> [heap |-> h, value |-> Num(now)]
      [] fn.s = "genId"    -> [heap |-> h, value |-> Str("id")]
      [] fn.s = "void"     -> [heap |-> h, value |-> Undefined]
      [] fn.s = "newArray" -> [heap |-> Append(h, Obj("Array", <<>>)),
                               value |-> Ref(Len(h) + 1)]
      [] OTHER             -> [heap |-> h, value |-> Undefined]

\* { ...doc }: a new plain object with the own enumerable properties of doc
Spread(h, d) ==
    IF d.t = "ref" /\ h[d.n].class # "Date"
    THEN Obj("Object", h[d.n].props)
    ELSE Obj("Object", <<>>)

\* Lines 167-179 and 191-203: target[key] gets the declared default, if any
SetDefault(h, target, key, fieldDef, now) ==
    LET default == Attr(fieldDef, "default")
    IN  IF default = Undefined THEN h
        ELSE IF default.t = "function"
        THEN LET p == CallProducer(h, default, now)
             IN  IF Attr(fieldDef, "type") = Str("Date") /\ p.value.t = "number"
                 THEN [Append(p.heap, Obj("Date", <<Prop("[[time]]", p.value)>>))
                        EXCEPT ![target] = Put(@, key, Ref(Len(p.heap) + 1))]
                 ELSE [p.heap EXCEPT ![target] = Put(@, key, p.value)]
        ELSE [h EXCEPT ![target] = Put(@, key, default)]

\* Lines 163-180: the defaults of the fields of a nested tree, one level
RECURSIVE NestedDefaults(_, _, _, _)
NestedDefaults(h, target, fields, now) ==
    IF fields = <<>> THEN h
    ELSE NestedDefaults(
            SetDefault(h, target, Head(fields).k, Head(fields).v, now),
            target, Tail(fields), now)

\* A plausible slip: every field is treated as absent
HasValueNever(h, result, field) == FALSE

\* A plausible slip: `!= null` in place of `!== undefined`
HasValueLoose(h, result, field) == ~IsNullish(Get(h[result], field))

\* Lines 152-155: result[field] !== undefined, the field already has a value
HasValue(h, result, field) == Get(h[result], field) # Undefined

\* A plausible slip: the emptied nested object is left in the result
\* (lines 183-185 missing)
RECURSIVE DefaultFieldsKeepEmpty(_, _, _, _)
DefaultFieldsKeepEmpty(h, result, fields, now) ==
    IF fields = <<>> THEN h
    ELSE
      LET field    == Head(fields).k
          fieldDef == Head(fields).v
          sub      == Len(h) + 1
          h1 == [Append(h, Obj("Object", <<>>))
                    EXCEPT ![result] = Put(@, field, Ref(sub))]
          h2 == NestedDefaults(h1, sub, fieldDef.fields, now)
      IN  DefaultFieldsKeepEmpty(
            IF HasValue(h, result, field) THEN h
            ELSE IF IsSubSchema(fieldDef) THEN h2
            ELSE SetDefault(h, result, field, fieldDef, now),
            result, Tail(fields), now)

\* Lines 149-204: the loop over the fields of the definition
RECURSIVE DefaultFields(_, _, _, _)
DefaultFields(h, result, fields, now) ==
    IF fields = <<>> THEN h
    ELSE
      LET field    == Head(fields).k
          fieldDef == Head(fields).v
          sub      == Len(h) + 1
          h1 == [Append(h, Obj("Object", <<>>))
                    EXCEPT ![result] = Put(@, field, Ref(sub))]
          h2 == NestedDefaults(h1, sub, fieldDef.fields, now)
          h3 == IF Len(h2[sub].props) = 0
                THEN [h2 EXCEPT ![result] = Delete(@, field)]
                ELSE h2
      IN  DefaultFields(
            IF HasValue(h, result, field) THEN h
            ELSE IF IsSubSchema(fieldDef) THEN h3
            ELSE SetDefault(h, result, field, fieldDef, now),
            result, Tail(fields), now)

\* A plausible slip: `const result = doc`, the defaults are written into
\* the caller's object
applyDefaultsInPlace(h, definition, d, now) ==
    IF d.t = "ref"
    THEN [heap |-> DefaultFields(h, d.n, definition, now), result |-> d]
    ELSE [heap |-> DefaultFields(Append(h, Spread(h, d)), Len(h) + 1,
                                 definition, now),
          result |-> Ref(Len(h) + 1)]

\* Schema.applyDefaults(doc = {}): lines 146-207
applyDefaults(h, definition, d, now) ==
    LET result == Len(h) + 1
        h1 == Append(h, Spread(h, d))
    IN  [heap |-> DefaultFields(h1, result, definition, now),
         result |-> Ref(result)]

(***************************************************************************)
(* Model (src/model.ts): a collection guarded by a Schema.  The Model is   *)
(* built without a logger, so the logger calls do not run.                 *)
(***************************************************************************)
\* validation.errors.map(err => err.message).join(', ')
RECURSIVE JoinMessages(_)
JoinMessages(errors) ==
    IF errors = <<>> THEN ""
    ELSE IF Len(errors) = 1 THEN errors[1].message
    ELSE errors[1].message \o ", " \o JoinMessages(Tail(errors))

\* The outcome of prepareDocument: the error it threw or the prepared
\* document, in the heap the call left
Prepared(h, threw, error, value) ==
    [heap |-> h, threw |-> threw, error |-> error, value |-> value]

\* A plausible slip: the validation result is not looked at
throwIfInvalidNever(preparedDoc, validation) ==
    IF validation.threw
    THEN Prepared(preparedDoc.heap, TRUE, validation.error, Undefined)
    ELSE Prepared(preparedDoc.heap, FALSE, "", preparedDoc.result)

\* Lines 83-94: if (!validation.isValid) throw ...; return preparedDoc.  An
\* exception of validate itself has already left prepareDocument.
throwIfInvalid(preparedDoc, validation) ==
    IF validation.threw
    THEN Prepared(preparedDoc.heap, TRUE, validation.error, Undefined)
    ELSE IF ~validation.isValid
    THEN Prepared(preparedDoc.heap, TRUE,
                  "Validation failed: " \o JoinMessages(validation.errors),
                  Undefined)
    ELSE Prepared(preparedDoc.heap, FALSE, "", preparedDoc.result)

\* Line 82: const validation = this.schema.validate(preparedDoc)
validatePrepared(preparedDoc, definition) ==
    throwIfInvalid(preparedDoc,
                   validate(preparedDoc.heap, definition, preparedDoc.result))

\* Model.prepareDocument(doc): the defaults, then the validation
prepareDocument(h, definition, d, now) ==
    validatePrepared(applyDefaults(h, definition, d, now), definition)

\* Connection.getDb(): the error it rejects with when no db is connected
NotEstablished == "Database connection not established"

\* The outcome of a create call: the error it rejected with or the
\* document it returned, and what it gave to insertOne
Created(threw, error, inserted, value) ==
    [threw |-> threw, error |-> error, inserted |-> inserted, value |-> value]

\* Lines 166-167: insertOne(preparedDoc), then { ...preparedDoc, _id }.  A
\* refused call leaves nothing behind: nothing refers to the prepared
\* document any more.
insertOne(h, stored, p) ==
    IF p.threw
    THEN [heap |-> h, collection |-> stored,
          out |-> Created(TRUE, p.error, <<>>, Undefined)]
    ELSE [heap |-> Append(p.heap,
                     Put(Spread(p.heap, p.value), "_id",
                         Str("id" \o ToString(Len(stored) + 1)))),
          collection |-> Append(stored, p.value),
          out |-> Created(FALSE, "", <<p.value>>, Ref(Len(p.heap) + 1))]

\* Model.create(doc): getCollection, prepareDocument, insertOne
create(h, definition, stored, d, connected, now) ==
    IF ~connected
    THEN [heap |-> h, collection |-> stored,
          out |-> Created(TRUE, NotEstablished, <<>>, Undefined)]
    ELSE insertOne(h, stored, prepareDocument(h, definition, d, now))

\* docs.map(doc => this.prepareDocument(doc)): line 181.  The first document
\* that is refused ends the map.
RECURSIVE prepareDocuments(_, _, _, _, _)
RECURSIVE nextPreparedSkip(_, _, _, _, _)
RECURSIVE nextPrepared(_, _, _, _, _)
prepareDocuments(h, definition, docs, now, done) ==
    IF docs = <<>> THEN Prepared(h, FALSE, "", done)
    ELSE nextPrepared(prepareDocument(h, definition, Head(docs), now),
                      definition, Tail(docs), now, done)

\* A plausible slip: a refused document is left out and the map goes on
nextPreparedSkip(p, definition, rest, now, done) ==
    IF p.threw THEN prepareDocuments(p.heap, definition, rest, now, done)
    ELSE prepareDocuments(p.heap, definition, rest, now, Append(done, p.value))

\* the map goes on after the document p stands for, unless that was refused
nextPrepared(p, definition, rest, now, done) ==
    IF p.threw THEN p
    ELSE prepareDocuments(p.heap, definition, rest, now, Append(done, p.value))

\* Lines 186-188: preparedDocs.map((doc, index) => ({ ...doc, _id: insertedIds[index] }))
RECURSIVE WithIds(_, _, _, _)
WithIds(h, docs, first, done) ==
    IF docs = <<>> THEN [heap |-> h, value |-> done]
    ELSE WithIds(Append(h, Put(Spread(h, Head(docs)), "_id",
                               Str("id" \o ToString(first)))),
                 Tail(docs), first + 1, Append(done, Ref(Len(h) + 1)))

\* Lines 183-188: insertMany(preparedDocs) and the documents with their
\* ids.  The driver rejects an empty batch.  A refused call leaves nothing
\* behind.
insertMany(h, stored, p) ==
    IF p.threw
    THEN [heap |-> h, collection |-> stored,
          out |-> Created(TRUE, p.error, <<>>, Undefined)]
    ELSE IF p.value = <<>>
    THEN [heap |-> h, collection |-> stored,
          out |-> Created(TRUE, "MongoInvalidArgumentError: Invalid BulkOperation, Batch cannot be empty",
                          <<>>, Undefined)]
    ELSE [heap |-> WithIds(p.heap, p.value, Len(stored) + 1, <<>>).heap,
          collection |-> stored \o p.value,
          out |-> Created(FALSE, "", p.value,
                          Arr(WithIds(p.heap, p.value, Len(stored) + 1, <<>>).value))]

\* Model.createMany(docs): lines 175-189
createMany(h, definition, stored, docs, connected, now) ==
    IF docs.t # "array"
    THEN [heap |-> h, collection |-> stored,
          out |-> Created(TRUE, "createMany requires an array of documents",
                          <<>>, Undefined)]
    ELSE IF ~connected
    THEN [heap |-> h, collection |-> stored,
          out |-> Created(TRUE, NotEstablished, <<>>, Undefined)]
    ELSE insertMany(h, stored,
                    prepareDocuments(h, definition, docs.items, now, <<>>))

\* A value with the objects it reaches written out (what Deep returns)
DObj(class, props) == [t |-> "object", n |-> 0, s |-> class, props |-> props]

\* new ObjectId(hex)
ObjectId(hex) == DObj("ObjectId", <<Prop("[[hex]]", Str(hex))>>)

\* Model.toObjectId(id): lines 68-70.  new ObjectId(id) throws for a string
\* that is no 24 character hex string
toObjectId(id) ==
    IF id.t # "string" THEN [threw |-> FALSE, error |-> "", value |-> id]
    ELSE IF id.s \in Hex24
    THEN [threw |-> FALSE, error |-> "", value |-> ObjectId(id.s)]
    ELSE [threw |-> TRUE,
          error |-> "BSONError: input must be a 24 character hex string, 12 byte Uint8Array, or an integer",
          value |-> Undefined]

\* key.startsWith(prefix)
startsWith(key, prefix) ==
    Len(key) >= Len(prefix) /\ SubSeq(key, 1, Len(prefix)) = prefix

\* A plausible slip: only the first key is looked at
hasOperatorsFirst(update) ==
    update.props # <<>> /\ startsWith(update.props[1].k, "$")

\* Object.keys(update).some(key => key.startsWith('$'))
hasOperators(update) ==
    \E i \in 1..Len(update.props) : startsWith(update.props[i].k, "$")

\* hasOperators ? update : { $set: update }
updateOp(update) ==
    IF hasOperators(update) THEN update
    ELSE DObj("Object", <<Prop("$set", update)>>)

\* options = {}: the default of a parameter the caller left out
OrEmpty(options) == IF options = Undefined THEN DObj("Object", <<>>) ELSE options

\* A call of the store's collection: collection[method](filter, update, options)
StoreCall(method, filter, update, options) ==
    [method |-> method, filter |-> filter, update |-> update, options |-> options]

\* What the store answers to updateOne / updateMany
StoreResults ==
    { [acknowledged |-> TRUE, matchedCount |-> m, modifiedCount |-> m,
       upsertedId |-> Null, upsertedCount |-> 0] : m \in 0..1 }

\* The outcome of an update call: the error it rejected with or the value
\* it returned, and the calls it made on the store
Updated(threw, message, sent, value) ==
    [threw |-> threw, error |-> message, sent |-> sent, value |-> value]

\* Lines 219-224: the four fields of the store's answer
Summary(result) ==
    [acknowledged |-> result.acknowledged, matchedCount |-> result.matchedCount,
     modifiedCount |-> result.modifiedCount, upsertedId |-> result.upsertedId]

\* Model.updateById(id, update, options): lines 198-225
updateById(id, update, options, connected, result) ==
    IF ~Truthy(id)
    THEN Updated(TRUE, "ID is required for updateById", <<>>, Undefined)
    ELSE IF ~connected
    THEN Updated(TRUE, NotEstablished, <<>>, Undefined)
    ELSE IF toObjectId(id).threw
    THEN Updated(TRUE, toObjectId(id).error, <<>>, Undefined)
    ELSE Updated(FALSE, "",
                 <<StoreCall("updateOne",
                             DObj("Object", <<Prop("_id", toObjectId(id).value)>>),
                             updateOp(update), OrEmpty(options))>>,
                 Summary(result))

\* Model.updateOne(filter, update, options): lines 234-254
updateOne(filter, update, options, connected, result) ==
    IF ~connected
    THEN Updated(TRUE, NotEstablished, <<>>, Undefined)
    ELSE Updated(FALSE, "",
                 <<StoreCall("updateOne", filter, updateOp(update), OrEmpty(options))>>,
                 Summary(result))

\* Model.updateMany(filter, update, options): lines 263-283
updateMany(filter, update, options, connected, result) ==
    IF ~connected
    THEN Updated(TRUE, NotEstablished, <<>>, Undefined)
    ELSE Updated(FALSE, "",
                 <<StoreCall("updateMany", filter, updateOp(update), OrEmpty(options))>>,
                 Summary(result))

(***************************************************************************)
(* ConsoleLogger (src/logger.ts).  `written` is what the logger gave to    *)
(* the console, oldest first: the console method and the text after the    *)
(* timestamp.                                                              *)
(***************************************************************************)
\* LOG_LEVELS[name]: the priority of a level, undefined for any other name
LOG_LEVELS(name) ==
    CASE name = "error" -> Num(0)
      [] name = "warn"  -> Num(1)
      [] name = "info"  -> Num(2)
      [] name = "debug" -> Num(3)
      [] OTHER          -> Undefined

\* a || b
Or(a, b) == IF Truthy(a) THEN a ELSE b

\* new ConsoleLogger(level)
NewLogger(level) == [level |-> level, written |-> <<>>]

\* ConsoleLogger.shouldLog(messageLevel), the current level being `level`
shouldLog(level, messageLevel) ==
    LET currentLevelValue == Or(LOG_LEVELS(level), LOG_LEVELS("info"))
        messageLevelValue == Or(LOG_LEVELS(messageLevel), LOG_LEVELS("info"))
    IN  messageLevelValue.n <= currentLevelValue.n

\* console[method](`${timestamp} [TAG]: ${message}`)
Console(lg, method, tag, message) ==
    [lg EXCEPT !.written =
        Append(@, [method |-> method, text |-> "[" \o tag \o "]: " \o message])]

\* ConsoleLogger.error / warn / info / debug
error(lg, message) == Console(lg, "error", "ERROR", message)
warn(lg, message) ==
    IF shouldLog(lg.level, "warn") THEN Console(lg, "warn", "WARN", message) ELSE lg
info(lg, message) ==
    IF shouldLog(lg.level, "info") THEN Console(lg, "log", "INFO", message) ELSE lg
debug(lg, message) ==
    IF shouldLog(lg.level, "debug") THEN Console(lg, "log", "DEBUG", message) ELSE lg

\* ConsoleLogger.setLevel(newLevel): the logger after the call and the
\* value returned
setLevel(lg, newLevel) ==
    IF LOG_LEVELS(newLevel) # Undefined
    THEN [logger |-> [lg EXCEPT !.level = newLevel], value |-> TRUE]
    ELSE [logger |-> lg, value |-> FALSE]

(***************************************************************************)
(* Connection (src/connection.ts).  The driver's clients are numbered in   *)
(* the order they are created; client 0 stands for null.  A db remembers   *)
(* the client it was obtained from.  connect and close are asynchronous:   *)
(* each runs up to its await, and resumes when the driver settles the      *)
(* promise, other calls running in between.                                *)
(***************************************************************************)
\* new Connection(logger): lines 16-20
NewConnection ==
    [client  |-> 0,         \* this.client
     db      |-> Null,      \* this.db
     clients |-> <<>>,      \* the driver's clients: "new", "open", "failed", "closed"
     calls   |-> <<>>,      \* the calls made, in the order they started
     history |-> <<>>]      \* how the calls ended, in the order they ended

\* client.db(dbName)
Db(client, dbName) == [t |-> "db", n |-> client, s |-> dbName]

AsyncCall(op, pc, c, dbName) == [op |-> op, pc |-> pc, c |-> c, dbName |-> dbName]
Event(op, ok, message, value) ==
    [op |-> op, ok |-> ok, error |-> message, value |-> value]

\* a call ends: its promise settles
Settle(conn, i, event) ==
    [conn EXCEPT !.calls[i].pc = "done", !.history = Append(@, event)]

\* the driver settles client.connect() or client.close() of client c
Driver(clients, c, status) ==
    [clients EXCEPT ![c] = IF @ = "closed" THEN @ ELSE status]

\* A plausible slip: the client is looked at in place of the db
getDbByClient(conn) ==
    IF conn.client = 0
    THEN Event("getDb", FALSE, NotEstablished, Null)
    ELSE Event("getDb", TRUE, "", conn.db)

\* Connection.getDb(): lines 26-32
getDb(conn) ==
    IF conn.db = Null
    THEN Event("getDb", FALSE, NotEstablished, Null)
    ELSE Event("getDb", TRUE, "", conn.db)

(***************************************************************************)
(* The declarations and the documents of the model.                        *)
(***************************************************************************)
\* no property at all (as opposed to a property holding undefined)
Absent == [t |-> "absent", n |-> 0, s |-> ""]

\* Field declarations that construct.  Those of TypedDecls declare a type
\* other than Mixed.
StrFull ==
    Decl(<<Prop("type", Fn("String")), Prop("required", Bool(TRUE)),
           Prop("enum", Arr(<<Str("ab"), Str("b")>>)),
           Prop("minLength", Num(2)), Prop("maxLength", Num(2)),
           Prop("pattern", RegExp("^a")),
           Prop("validate", Fn("isShort")), Prop("message", Str("bad"))>>)
StrReq == Decl(<<Prop("type", Fn("String")), Prop("required", Bool(TRUE))>>)
StrDef == Decl(<<Prop("type", Str("String")), Prop("default", Str("x"))>>)
StrThrow ==
    Decl(<<Prop("type", Fn("String")), Prop("minLength", Num(2)),
           Prop("validate", Fn("throwsError"))>>)
NumFull ==
    Decl(<<Prop("type", Fn("Number")), Prop("min", Num(1)), Prop("max", Num(2)),
           Prop("enum", Arr(<<Num(1), Num(3)>>)), Prop("validate", Fn("reject"))>>)
NumReqDef ==
    Decl(<<Prop("type", Fn("Number")), Prop("required", Bool(TRUE)),
           Prop("default", Num(1))>>)
DateNow == Decl(<<Prop("type", Fn("Date")), Prop("default", Fn("now"))>>)
ArrDef == Decl(<<Prop("type", Fn("Array")), Prop("default", Ref(1))>>)
ArrShort == Arr(<<Fn("String")>>)
MixedAll ==
    Decl(<<Prop("type", Str("Mixed")), Prop("enum", Arr(<<Str("ab"), Num(1)>>)),
           Prop("validate", Fn("reject")), Prop("message", Str("bad")),
           Prop("default", Fn("void"))>>)
Oid == Decl(<<Prop("type", Fn("ObjectId"))>>)
BoolBare == Fn("Boolean")
NestA ==
    Decl(<<Prop("x", Decl(<<Prop("type", Fn("String")), Prop("required", Bool(TRUE)),
                           Prop("minLength", Num(2))>>)),
           Prop("y", Decl(<<Prop("type", Fn("Number")), Prop("default", Num(1))>>))>>)
NestNoDef ==
    Decl(<<Prop("x", Decl(<<Prop("type", Fn("String")),
                           Prop("validate", Fn("reject"))>>)),
           Prop("y", StrReq)>>)
NestDeep ==
    Decl(<<Prop("x", Decl(<<Prop("y", Decl(<<Prop("type", Fn("String")),
                                            Prop("required", Bool(TRUE)),
                                            Prop("default", Str("x"))>>))>>))>>)

\* validate: 0, a validate that is present and is no function
StrValidate0 ==
    Decl(<<Prop("type", Fn("String")), Prop("minLength", Num(2)),
           Prop("validate", Num(0))>>)
\* a Date field with a static numeric default
DateStatic == Decl(<<Prop("type", Fn("Date")), Prop("default", Num(1))>>)

\* an unknown type tag
BadType == Decl(<<Prop("type", Str("Foo"))>>)
\* a non-boolean required three levels down, after a well-formed field
NestBad ==
    Decl(<<Prop("x", StrReq),
           Prop("y", Decl(<<Prop("z", Decl(<<Prop("type", Fn("String")),
                                            Prop("required", Str("yes"))>>))>>))>>)

\* Field declarations that processDefinition rejects
BadDecls ==
    { Null, BadType, NestBad,
      Decl(<<Prop("type", Fn("String")), Prop("required", Str("yes"))>>),
      Decl(<<Prop("type", Fn("String")), Prop("validate", Str("fn"))>> ) }

FieldDecls ==
    { StrFull, StrReq, StrDef, StrThrow, NumFull, NumReqDef, DateNow, ArrDef,
      ArrShort, MixedAll, Oid, BoolBare, NestA, NestNoDef, NestDeep,
      StrValidate0, DateStatic }

SiblingDecls == { StrReq, Oid, StrDef, BadType }

\* The objects a declaration refers to (the array of `default: []`)
DeclHeap == << Obj("Array", <<>>) >>

\* The raw declarations: a field a, or a field a followed by a field b
Declarations ==
    { Decl(<<Prop("a", d)>>) : d \in FieldDecls \cup BadDecls }
    \cup { Decl(<<Prop("a", d), Prop("b", e)>>) :
                d \in FieldDecls \cup BadDecls, e \in SiblingDecls }

\* The values of the model's documents
Hex == Str("507f1f77bcf86cd799439011")

ValuesA ==
    { Absent, Undefined, Null, Str("ab"), Str("b"), Str("abc"), Hex,
      Num(0), Num(1), Num(3), NaN, Bool(TRUE),
      DObj("Date", <<Prop("[[time]]", Num(1))>>),
      DObj("Array", <<>>),
      DObj("Array", <<Prop("0", Str("ab"))>>),
      DObj("Array", <<Prop("0", Str("ab")), Prop("1", Num(1))>>),
      DObj("NullProto", <<>>),
      DObj("Object", <<>>),
      DObj("Object", <<Prop("x", Str("ab"))>>),
      DObj("Object", <<Prop("x", Str("b")), Prop("y", Null)>>),
      DObj("Object", <<Prop("x", DObj("Object", <<>>))>>),
      DObj("Object", <<Prop("x", DObj("Object", <<Prop("y", Str("ab"))>>))>>) }

ValuesB == { Absent, Str("b"), DObj("NullProto", <<>>) }

DocProps(va, vb) ==
    (IF va = Absent THEN <<>> ELSE <<Prop("a", va)>>)
        \o (IF vb = Absent THEN <<>> ELSE <<Prop("b", vb)>>)

Documents == { DObj("Object", DocProps(va, vb)) : va \in ValuesA, vb \in ValuesB }

\* The caller's object literal: allocate a written-out value in the heap
RECURSIVE Alloc(_, _)
RECURSIVE AllocProps(_, _, _)
AllocProps(h, props, done) ==
    IF props = <<>> THEN [heap |-> h, props |-> done]
    ELSE LET a == Alloc(h, Head(props).v)
         IN  AllocProps(a.heap, Tail(props),
                        Append(done, Prop(Head(props).k, a.value)))

Alloc(h, v) ==
    IF v.t # "object" THEN [heap |-> h, value |-> v]
    ELSE LET p == AllocProps(h, v.props, <<>>)
         IN  [heap |-> Append(p.heap, Obj(v.s, p.props)),
              value |-> Ref(Len(p.heap) + 1)]

(***************************************************************************)
(* The state machine: a Schema is constructed from a declaration; the      *)
(* caller then builds a document and calls applyDefaults and validate on   *)
(* it and on the documents applyDefaults returned.                          *)
(***************************************************************************)
NoCall == [op |-> "none", arg |-> Undefined, before |-> Undefined,
           out |-> Undefined]

\* The state after construction: a Schema of one of the declarations, a
\* Connection, and a ConsoleLogger of one of the levels
Start(declarations, levels) ==
    /\ originalDefinition \in declarations
    /\ schema = NewSchema(DeclHeap, originalDefinition)
    /\ heap = DeclHeap
    /\ doc = Undefined
    /\ results = <<>>
    /\ call = NoCall
    /\ collection = <<>>
    /\ connection = NewConnection
    /\ logger \in {NewLogger(level) : level \in levels}

\* new ConsoleLogger(): the default level is 'info'
Init == Start(Declarations, {"info"})

\* const doc = {...}
NewDocument ==
    /\ schema.ok
    /\ doc = Undefined
    /\ results = <<>>
    /\ \E d \in Documents :
         LET a == Alloc(heap, d)
         IN  /\ heap' = a.heap
             /\ doc' = a.value
    /\ call' = NoCall
    /\ UNCHANGED <<originalDefinition, schema, results, collection, connection, logger>>

\* The documents the caller holds
Held == {doc} \cup {results[i] : i \in 1..Len(results)}

\* A plausible slip: the value a producer returned is kept in the tree
\* (fieldDef.default = defaultValue), so the producer runs once only
ApplyDefaultsMemo(arg, now) ==
    /\ schema.ok
    /\ Len(results) < MaxApply
    /\ LET r == applyDefaults(heap, schema.definition, arg, now)
           memo(p) ==
               IF ~IsSubSchema(p.v) /\ Attr(p.v, "default").t = "function"
               THEN Prop(p.k, Leaf([p.v.attrs EXCEPT !["default"] =
                                CallProducer(heap, @, now).value]))
               ELSE p
       IN  /\ heap' = r.heap
           /\ results' = Append(results, r.result)
           /\ schema' = [schema EXCEPT !.definition =
                            [i \in 1..Len(@) |-> memo(@[i])]]
           /\ call' = [op |-> "applyDefaults", arg |-> arg,
                       before |-> Deep(heap, arg), out |-> r.result]
    /\ UNCHANGED <<originalDefinition, doc, collection, connection, logger>>

\* schema.applyDefaults(arg), called when Date.now() is `now`
ApplyDefaults(arg, now) ==
    /\ schema.ok
    /\ Len(results) < MaxApply
    /\ LET r == applyDefaults(heap, schema.definition, arg, now)
       IN  /\ heap' = r.heap
           /\ results' = Append(results, r.result)
           /\ call' = [op |-> "applyDefaults", arg |-> arg,
                       before |-> Deep(heap, arg), out |-> r.result]
    /\ UNCHANGED <<originalDefinition, schema, doc, collection, connection, logger>>

\* schema.validate(arg)
Validate(arg) ==
    /\ schema.ok
    /\ call' = [op |-> "validate", arg |-> arg, before |-> Deep(heap, arg),
                out |-> validate(heap, schema.definition, arg)]
    /\ UNCHANGED <<originalDefinition, schema, heap, doc, results, collection, connection, logger>>

\* The caller of applyDefaults works on what it got: result.a.push('m'),
\* for the i-th document applyDefaults returned
PushItem(i) ==
    /\ i \in 1..Len(results)
    /\ LET array == Get(heap[results[i].n], "a")
       IN  /\ IsArray(heap, array)
           /\ Len(heap[array.n].props) < MaxItems
           /\ heap' = [heap EXCEPT ![array.n] =
                          Put(@, ToString(Len(@.props)), Str("m"))]
    /\ call' = [op |-> "push", arg |-> results[i],
                before |-> Deep(heap, results[i]), out |-> Undefined]
    /\ UNCHANGED <<originalDefinition, schema, doc, results, collection, connection, logger>>

\* model.create(arg), on a connection that is established or not, when
\* Date.now() is `now`
Create(arg, connected, now) ==
    /\ schema.ok
    /\ Len(collection) < MaxInsert
    /\ \E r \in {create(heap, schema.definition, collection, arg, connected, now)} :
          /\ heap' = r.heap
          /\ collection' = r.collection
          /\ call' = [op |-> "create", arg |-> arg, before |-> Deep(heap, arg),
                      out |-> r.out]
    /\ UNCHANGED <<originalDefinition, schema, doc, results, connection, logger>>

Next ==
    \/ NewDocument
    \/ \E arg \in Held, now \in 0..MaxClock : ApplyDefaults(arg, now)
    \/ \E arg \in Held \cup {Null} : Validate(arg)
    \/ \E i \in 1..MaxApply : PushItem(i)

Spec == Init /\ [][Next]_vars

\* model.createMany(docs), on a connection that is established or not,
\* when Date.now() is `now`
CreateMany(docs, connected, now) ==
    /\ schema.ok
    /\ Len(collection) < MaxInsert
    /\ \E r \in {createMany(heap, schema.definition, collection, docs, connected, now)} :
          /\ Len(r.collection) <= MaxInsert
          /\ heap' = r.heap
          /\ collection' = r.collection
          /\ call' = [op |-> "createMany", arg |-> docs, before |-> Undefined,
                      out |-> r.out]
    /\ UNCHANGED <<originalDefinition, schema, doc, results, connection, logger>>

\* The callers of a Model: documents reach the collection through create
ModelNext ==
    \/ NewDocument
    \/ \E connected \in BOOLEAN, now \in 0..MaxClock : Create(doc, connected, now)

ModelSpec == Init /\ [][ModelNext]_vars

\* The callers of a Model that store documents in batches, the schema
\* declaring one field
\* The batches a caller makes of the document built and of undefined,
\* which prepareDocument takes for {}; and a caller that passes no array
BatchNext ==
    \/ NewDocument
    \/ \E docs \in { Arr(<<>>), Arr(<<doc>>), Arr(<<Undefined, doc>>),
                      Arr(<<doc, Undefined>>), doc },
          connected \in BOOLEAN, now \in 0..MaxClock :
          CreateMany(docs, connected, now)

BatchInit == Init /\ Len(originalDefinition.props) = 1

BatchSpec == BatchInit /\ [][BatchNext]_vars

\* connection.connect(uri, dbName) up to `await this.client.connect()`:
\* lines 58-78.  Without a uri or a dbName it throws before anything else.
ConnectStart(uri, dbName) ==
    /\ Len(connection.calls) < MaxCalls
    /\ LET i == Len(connection.calls) + 1
           c == Len(connection.clients) + 1
       IN  IF uri = ""
           THEN /\ connection' =
                     Settle([connection EXCEPT !.calls =
                                Append(@, AsyncCall("connect", "start", 0, dbName))],
                            i, Event("connect", FALSE,
                                     "MongoDB connection URI is required", Null))
                /\ UNCHANGED logger
           ELSE IF dbName = ""
           THEN /\ connection' =
                     Settle([connection EXCEPT !.calls =
                                Append(@, AsyncCall("connect", "start", 0, dbName))],
                            i, Event("connect", FALSE,
                                     "Database name is required", Null))
                /\ UNCHANGED logger
           ELSE /\ logger' = debug(logger, "Attempting to connect to MongoDB")
                /\ connection' =
                     [connection EXCEPT
                        !.client = c,
                        !.clients = Append(@, "new"),
                        !.calls = Append(@, AsyncCall("connect", "await", c, dbName))]
    /\ UNCHANGED <<originalDefinition, schema, heap, doc, results, call, collection>>

\* connect resumes after `await this.client.connect()`: lines 78-86.  The
\* driver resolved or rejected the promise of the client the call created;
\* this.client is read again for this.client.db(dbName).
ConnectResume(i, resolved) ==
    /\ i \in 1..Len(connection.calls)
    /\ connection.calls[i].op = "connect"
    /\ connection.calls[i].pc = "await"
    /\ LET this    == connection.calls[i]
           settled == [connection EXCEPT
                          !.clients = Driver(@, this.c,
                                             IF resolved THEN "open" ELSE "failed")]
       IN  IF ~resolved
           THEN /\ logger' = error(logger,
                        "Failed to connect to MongoDB: connect ECONNREFUSED")
                /\ connection' = Settle(settled, i,
                        Event("connect", FALSE, "connect ECONNREFUSED", Null))
           ELSE IF connection.client = 0
           THEN /\ logger' = error(logger,
                        "Failed to connect to MongoDB: Cannot read properties of null (reading 'db')")
                /\ connection' = Settle(settled, i,
                        Event("connect", FALSE,
                              "Cannot read properties of null (reading 'db')", Null))
           ELSE /\ logger' = info(logger,
                        "Connected to MongoDB database: " \o this.dbName)
                /\ connection' =
                     Settle([settled EXCEPT
                                !.db = Db(connection.client, this.dbName)],
                            i, Event("connect", TRUE, "",
                                     Db(connection.client, this.dbName)))
    /\ UNCHANGED <<originalDefinition, schema, heap, doc, results, call, collection>>

\* connection.close() up to `await this.client.close()`: lines 37-40.
\* Without a client the call is over at once.
CloseStart ==
    /\ Len(connection.calls) < MaxCalls
    /\ LET i == Len(connection.calls) + 1
       IN  IF connection.client = 0
           THEN connection' =
                    Settle([connection EXCEPT !.calls =
                               Append(@, AsyncCall("close", "start", 0, ""))],
                           i, Event("close", TRUE, "", Null))
           ELSE connection' =
                    [connection EXCEPT !.calls =
                        Append(@, AsyncCall("close", "await", connection.client, ""))]
    /\ UNCHANGED <<originalDefinition, schema, heap, doc, results, call, collection,
                   logger>>

\* close resumes after `await this.client.close()`: lines 40-47.  Whether
\* the driver resolved or rejected, the finally block clears client and db.
CloseResume(i, resolved) ==
    /\ i \in 1..Len(connection.calls)
    /\ connection.calls[i].op = "close"
    /\ connection.calls[i].pc = "await"
    /\ LET this == connection.calls[i]
       IN  IF resolved
           THEN /\ logger' = info(logger, "MongoDB connection closed")
                /\ connection' =
                     Settle([connection EXCEPT
                                !.clients = Driver(@, this.c, "closed"),
                                !.client = 0,
                                !.db = Null],
                            i, Event("close", TRUE, "", Null))
           ELSE /\ UNCHANGED logger
                /\ connection' =
                     Settle([connection EXCEPT !.client = 0, !.db = Null],
                            i, Event("close", FALSE, "close failed", Null))
    /\ UNCHANGED <<originalDefinition, schema, heap, doc, results, call, collection>>

\* connection.getDb()
GetDb ==
    /\ Len(connection.calls) < MaxCalls
    /\ connection' =
          Settle([connection EXCEPT !.calls =
                     Append(@, AsyncCall("getDb", "start", 0, ""))],
                 Len(connection.calls) + 1, getDb(connection))
    /\ UNCHANGED <<originalDefinition, schema, heap, doc, results, call, collection,
                   logger>>

\* The callers of a Connection
ConnNext ==
    \/ \E uri \in {"", "mongodb://h"}, dbName \in {"", "test"} :
          ConnectStart(uri, dbName)
    \/ \E i \in 1..MaxCalls, resolved \in BOOLEAN : ConnectResume(i, resolved)
    \/ CloseStart
    \/ \E i \in 1..MaxCalls, resolved \in BOOLEAN : CloseResume(i, resolved)
    \/ GetDb

\* One schema is enough where the Connection is looked at
ConnInit == Init /\ originalDefinition = Decl(<<Prop("a", StrReq)>>)

ConnSpec == ConnInit /\ [][ConnNext]_vars

UpdateArgs(target, update, options) ==
    [target |-> target, update |-> update, options |-> options]

\* model.updateById(id, update, options)
UpdateById(id, update, options, connected, result) ==
    /\ schema.ok
    /\ call' = [op |-> "updateById", arg |-> UpdateArgs(id, update, options),
                before |-> Undefined,
                out |-> updateById(id, update, options, connected, result)]
    /\ UNCHANGED <<originalDefinition, schema, heap, doc, results, collection,
                   connection, logger>>

\* model.updateOne(filter, update, options)
UpdateOne(filter, update, options, connected, result) ==
    /\ schema.ok
    /\ call' = [op |-> "updateOne", arg |-> UpdateArgs(filter, update, options),
                before |-> Undefined,
                out |-> updateOne(filter, update, options, connected, result)]
    /\ UNCHANGED <<originalDefinition, schema, heap, doc, results, collection,
                   connection, logger>>

\* model.updateMany(filter, update, options)
UpdateMany(filter, update, options, connected, result) ==
    /\ schema.ok
    /\ call' = [op |-> "updateMany", arg |-> UpdateArgs(filter, update, options),
                before |-> Undefined,
                out |-> updateMany(filter, update, options, connected, result)]
    /\ UNCHANGED <<originalDefinition, schema, heap, doc, results, collection,
                   connection, logger>>

\* The callers of a Model that update documents, with the updates, options,
\* ids and filters they pass
UpdateNext ==
    \E update \in
          { DObj("Object", <<>>),
            DObj("Object", <<Prop("name", Str("ab"))>>),
            DObj("Object", <<Prop("a$", Num(1))>>),
            DObj("Object", <<Prop("", Num(1))>>),
            DObj("Object", <<Prop("$set", DObj("Object", <<Prop("name", Str("ab"))>>))>>),
            DObj("Object", <<Prop("$set", DObj("Object", <<Prop("name", Str("ab"))>>)),
                             Prop("$inc", DObj("Object", <<Prop("age", Num(1))>>))>>),
            DObj("Object", <<Prop("name", Str("ab")),
                             Prop("$inc", DObj("Object", <<Prop("age", Num(1))>>))>>) },
       options \in { Undefined, DObj("Object", <<Prop("upsert", Bool(TRUE))>>) },
       connected \in BOOLEAN, result \in StoreResults :
        \/ \E id \in { Null, Str(""), Str("xyz"), Hex,
                       ObjectId("507f1f77bcf86cd799439011") } :
              UpdateById(id, update, options, connected, result)
        \/ \E filter \in { DObj("Object", <<>>),
                           DObj("Object", <<Prop("name", Str("ab"))>>) } :
              UpdateOne(filter, update, options, connected, result)
        \/ \E filter \in { DObj("Object", <<>>),
                           DObj("Object", <<Prop("name", Str("ab"))>>) } :
              UpdateMany(filter, update, options, connected, result)

UpdateSpec == ConnInit /\ [][UpdateNext]_vars

\* logger.error / warn / info / debug (message), by the name of the method
Log(method, message) ==
    /\ Len(logger.written) < MaxLog
    /\ logger' = CASE method = "error" -> error(logger, message)
                   [] method = "warn"  -> warn(logger, message)
                   [] method = "info"  -> info(logger, message)
                   [] method = "debug" -> debug(logger, message)
    /\ call' = [op |-> method, arg |-> Str(message), before |-> Undefined,
                out |-> Undefined]
    /\ UNCHANGED <<originalDefinition, schema, heap, doc, results, collection,
                   connection>>

\* logger.setLevel(newLevel)
SetLevel(newLevel) ==
    /\ logger' = setLevel(logger, newLevel).logger
    /\ call' = [op |-> "setLevel", arg |-> Str(newLevel), before |-> Undefined,
                out |-> Bool(setLevel(logger, newLevel).value)]
    /\ UNCHANGED <<originalDefinition, schema, heap, doc, results, collection,
                   connection>>

\* The names callers use for levels: the four levels and two that are none
LevelNames == {"error", "warn", "info", "debug", "invalid", ""}

\* The callers of a ConsoleLogger
LoggerNext ==
    \/ \E method \in {"error", "warn", "info", "debug"} : Log(method, "m")
    \/ \E newLevel \in LevelNames : SetLevel(newLevel)

\* new ConsoleLogger(level), for any level name
LoggerInit == Start({Decl(<<Prop("a", StrReq)>>)}, LevelNames)

LoggerSpec == LoggerInit /\ [][LoggerNext]_vars



(***************************************************************************)
(* Properties of applyDefaults.                                            *)
(***************************************************************************)
Applied == call.op = "applyDefaults"

\* the argument of the last call is a document an earlier applyDefaults returned
ArgIsResult == \E i \in 1..(Len(results) - 1) : results[i] = call.arg

\* the value of property k of the object v denotes, v being a reference or
\* a written-out value
Field(h, v, k) ==
    IF v.t = "ref" THEN Get(h[v.n], k)
    ELSE IF v.t = "object" THEN Get(v, k)
    ELSE Undefined

\* C1: applying the defaults to a document that applyDefaults returned
\* yields a document deep-equal to it: the second application changes nothing.
C1_Idempotent ==
    (Applied /\ ArgIsResult) => Deep(heap, call.out) = Deep(heap, call.arg)

\* C1's case: the first application filled in a default and the second
\* application ran on its result
C1_Witness ==
    /\ Applied /\ ArgIsResult
    /\ doc # Undefined
    /\ Deep(heap, results[1]) # Deep(heap, doc)

\* C2: a schema field whose value in the input is defined (null included)
\* has the very same value in the result, whatever default is declared.
C2_NonOverwrite ==
    (Applied /\ call.arg.t = "ref") =>
        \A i \in 1..Len(schema.definition) :
            LET f == schema.definition[i].k
            IN  Field(heap, call.before, f) # Undefined =>
                    /\ Field(heap, call.out, f) = Field(heap, call.arg, f)
                    /\ Deep(heap, Field(heap, call.out, f)) = Field(heap, call.before, f)

\* C2's case: the input holds an explicit null for a field that declares a
\* default, and the result still holds null
C2_Witness ==
    /\ Applied /\ call.arg.t = "ref"
    /\ \E i \in 1..Len(schema.definition) :
          /\ ~IsSubSchema(schema.definition[i].v)
          /\ Attr(schema.definition[i].v, "default") # Undefined
          /\ Field(heap, call.before, schema.definition[i].k) = Null
          /\ Field(heap, call.out, schema.definition[i].k) = Null

\* C3: after applyDefaults the input document, with every sub-document it
\* contains, is what it was before the call, and the result is another object.
C3_InputUntouched ==
    (Applied /\ call.arg.t = "ref") =>
        /\ Deep(heap, call.arg) = call.before
        /\ call.out # call.arg

\* C3's case: the input holds a nested sub-document and the call filled in
\* a default, so the result differs from the input
C3_Witness ==
    /\ Applied /\ call.arg.t = "ref"
    /\ Field(heap, call.before, "a").t = "object"
    /\ Deep(heap, call.out) # call.before

(***************************************************************************)
(* Properties of validate.                                                 *)
(***************************************************************************)
\* the last call is a validate call on a document (an object)
Validated == call.op = "validate" /\ call.arg.t = "ref"
Returns == Validated /\ ~call.out.threw

\* The leaves of a tree in declaration order, each with its dotted path,
\* the field names leading to it and its field definition
RECURSIVE LeafList(_, _, _)
LeafList(fields, parentPath, keys) ==
    IF fields = <<>> THEN <<>>
    ELSE LET k    == Head(fields).k
             path == IF parentPath # "" THEN parentPath \o "." \o k ELSE k
         IN  (IF IsSubSchema(Head(fields).v)
              THEN LeafList(Head(fields).v.fields, path, Append(keys, k))
              ELSE << [path |-> path, keys |-> Append(keys, k), def |-> Head(fields).v] >>)
             \o LeafList(Tail(fields), parentPath, keys)

\* The dotted paths of all the nodes of a tree, a nested node before its
\* fields, in declaration order
RECURSIVE NodePaths(_, _)
NodePaths(fields, parentPath) ==
    IF fields = <<>> THEN <<>>
    ELSE LET k    == Head(fields).k
             path == IF parentPath # "" THEN parentPath \o "." \o k ELSE k
         IN  <<path>>
             \o (IF IsSubSchema(Head(fields).v)
                 THEN NodePaths(Head(fields).v.fields, path) ELSE <<>>)
             \o NodePaths(Tail(fields), parentPath)

\* a sub-document the walk descends into: an object that is not an array
IsMapping(h, v) == v.t = "ref" /\ ~IsArray(h, v)

\* Where the field named by keys stands in document d, read as d?.k1?. ... ?.kn:
\*   "value"   every enclosing sub-document is a mapping, value is d.k1...kn
\*   "orphan"  an enclosing sub-document is undefined or null, those above
\*             it are mappings: the field has no value
\*   "beyond"  an enclosing sub-document is not a mapping
RECURSIVE Lookup(_, _, _)
Lookup(h, d, keys) ==
    IF IsNullish(d) THEN [at |-> "orphan", value |-> Undefined]
    ELSE IF ~IsMapping(h, d) THEN [at |-> "beyond", value |-> Undefined]
    ELSE IF Len(keys) = 1 THEN [at |-> "value", value |-> Get(h[d.n], keys[1])]
    ELSE Lookup(h, Get(h[d.n], keys[1]), Tail(keys))

Leaves == LeafList(schema.definition, "", <<>>)

ErrorsOf(path) == SelectSeq(call.out.errors, LAMBDA e : e.field = path)
StepsOf(path)  == SelectSeq(call.out.steps, LAMBDA e : e.field = path)

\* The document d cut down to its property k
OnlyField(h, d, k) ==
    Append(h, Obj(h[d.n].class,
                  IF HasOwn(h[d.n], k) THEN <<Prop(k, Get(h[d.n], k))>> ELSE <<>>))

\* What validate reports for the i-th field of the definition alone, on the
\* document cut down to that field
Alone(i) ==
    validate(OnlyField(heap, call.arg, schema.definition[i].k),
             <<schema.definition[i]>>, Ref(Len(heap) + 1))

\* the errors of the last call that belong to the i-th field of the
\* definition or to a field nested in it
ErrorsUnder(i) ==
    LET paths == NodePaths(<<schema.definition[i]>>, "")
    IN  SelectSeq(call.out.errors,
                  LAMBDA e : \E q \in 1..Len(paths) : paths[q] = e.field)

\* C4: the violations validate reports for a field are those the field has
\* by its own specification and value alone, whatever its siblings hold: a
\* document that fails two fields yields the violations of both.  (A call
\* that raises reports no violation.)
C4_FieldsIndependent ==
    Validated =>
        \A i \in 1..Len(schema.definition) :
            ~Alone(i).threw => ErrorsUnder(i) = Alone(i).errors

\* the leaves whose custom validator ran and threw
ThrowingLeaves ==
    SelectSeq(Leaves, LAMBDA l :
        /\ Attr(l.def, "validate") = Fn("throwsError")
        /\ \E i \in 1..Len(call.out.steps) :
              call.out.steps[i] = Step(l.path, "custom"))

\* C5: when the custom validator of a field throws, validate returns a
\* result that holds one violation of that field, with the thrown message:
\* the call is not ended by the exception and the remaining fields are
\* validated.
C5_ValidatorThrowCaught ==
    Validated =>
        \A n \in 1..Len(ThrowingLeaves) :
            LET l == ThrowingLeaves[n]
            IN  /\ ~call.out.threw
                /\ SelectSeq(call.out.errors,
                             LAMBDA e : e.field = l.path /\ e.check = "custom")
                      = <<Violation(l.path, "Validation error", "custom")>>

\* C6: validate of a document returns a result and never raises.
C6_NeverRaises == Validated => ~call.out.threw

\* the registry predicate of leaf l returns false for value v
FailsType(l, v) ==
    /\ Attr(l.def, "type") # Str("Mixed")
    /\ DefaultValidations(heap, Attr(l.def, "type").s, v) = Returned(FALSE)

\* C7: a non-null value that fails the registry predicate of its field
\* (typeName other than Mixed) gets exactly one violation, '<path> must be
\* of type <typeName>', and no other check is run for the field.
C7_TypeFailureStops ==
    Validated =>
        \A n \in 1..Len(Leaves) :
            LET l  == Leaves[n]
                lk == Lookup(heap, call.arg, l.keys)
            IN  (lk.at = "value" /\ ~IsNullish(lk.value) /\ FailsType(l, lk.value)) =>
                    /\ ~call.out.threw
                    /\ StepsOf(l.path) = <<Step(l.path, "type")>>
                    /\ ErrorsOf(l.path) =
                          <<Violation(l.path,
                              l.path \o " must be of type " \o Attr(l.def, "type").s,
                              "type")>>

\* C8: in the result validate returns, a required leaf whose value is
\* undefined or null has exactly one violation, '<path> is required', with
\* its dotted path as field, and no other check was run for it.
C8_RequiredMissing ==
    Returns =>
        \A n \in 1..Len(Leaves) :
            LET l  == Leaves[n]
                lk == Lookup(heap, call.arg, l.keys)
            IN  (/\ Truthy(Attr(l.def, "required"))
                 /\ lk.at \in {"value", "orphan"}
                 /\ IsNullish(lk.value)) =>
                    /\ StepsOf(l.path) = <<Step(l.path, "required")>>
                    /\ ErrorsOf(l.path) =
                          <<Violation(l.path, l.path \o " is required", "required")>>

\* C9: a leaf that is not required and whose value is undefined or null
\* gets no violation and no check at all, its custom validator included.
C9_OptionalMissing ==
    Validated =>
        \A n \in 1..Len(Leaves) :
            LET l  == Leaves[n]
                lk == Lookup(heap, call.arg, l.keys)
            IN  (~Truthy(Attr(l.def, "required")) /\ IsNullish(lk.value)) =>
                    /\ StepsOf(l.path) = <<>>
                    /\ ErrorsOf(l.path) = <<>>

\* C9's case: an optional field with an enum and a custom validator that
\* rejects everything holds null
C9_Witness ==
    /\ Returns
    /\ \E n \in 1..Len(Leaves) :
          LET l  == Leaves[n]
              lk == Lookup(heap, call.arg, l.keys)
          IN  /\ ~Truthy(Attr(l.def, "required"))
              /\ Attr(l.def, "validate") = Fn("reject")
              /\ Attr(l.def, "enum") # Undefined
              /\ lk.at = "value" /\ lk.value = Null

\* the place of a path among the nodes of the schema, in declaration order
Place(path) ==
    LET paths == NodePaths(schema.definition, "")
    IN  CHOOSE i \in 1..Len(paths) : paths[i] = path

\* the stage of a field's chain of checks a violation comes from
Stage(check) ==
    CASE check = "enum" -> 1
      [] check \in {"minLength", "maxLength", "pattern", "min", "max",
                    "itemType", "itemMinLength", "itemMaxLength",
                    "itemMin", "itemMax"} -> 2
      [] check = "custom" -> 3
      [] OTHER -> 0

\* C10: errors is ordered by the declaration order of the fields (nested
\* fields at the place of their parent) and, within a field, enum before
\* the type-specific constraints before the custom validator.
C10_ErrorsOrdered ==
    Returns =>
        \A i, j \in 1..Len(call.out.errors) :
            i < j =>
                LET e == call.out.errors[i]
                    f == call.out.errors[j]
                IN  \/ Place(e.field) < Place(f.field)
                    \/ Place(e.field) = Place(f.field) /\ Stage(e.check) <= Stage(f.check)

\* C10's case: one field fails its enum, a constraint and its validator,
\* and the field declared after it fails too
C10_Witness ==
    /\ Returns
    /\ \E i, j, k, m \in 1..Len(call.out.errors) :
          /\ i < j /\ j < k /\ k < m
          /\ call.out.errors[i].field = "a" /\ call.out.errors[i].check = "enum"
          /\ call.out.errors[j].field = "a" /\ Stage(call.out.errors[j].check) = 2
          /\ call.out.errors[k].field = "a" /\ call.out.errors[k].check = "custom"
          /\ call.out.errors[m].field = "b"

(***************************************************************************)
(* Properties of construction.                                             *)
(***************************************************************************)
\* A field declaration is malformed: it is null or undefined, or its type
\* is no registry tag, or it holds a validate that is not callable, or a
\* required that is not a boolean.  A bare nested object is malformed when
\* one of its fields is.
RECURSIVE Malformed(_, _)
RECURSIVE AnyMalformed(_, _)
Malformed(h, fieldDef) ==
    IF IsNullish(fieldDef) THEN TRUE
    ELSE IF IsArray(h, fieldDef) THEN FALSE
    ELSE IF TypeOf(h, fieldDef) = "object" /\ ~HasOwn(Literal(h, fieldDef), "type")
    THEN AnyMalformed(h, Literal(h, fieldDef).props)
    ELSE LET src == IF TypeOf(h, fieldDef) = "object"
                    THEN Literal(h, fieldDef)
                    ELSE Decl(<<Prop("type", fieldDef)>>)
             type     == Get(src, "type")
             check    == Get(src, "validate")
             required == Get(src, "required")
         IN  \/ ~(type.t \in {"string", "function"} /\ IsTypeName(type.s))
             \/ check # Undefined /\ check.t # "function"
             \/ required # Undefined /\ required.t # "boolean"

AnyMalformed(h, props) ==
    \E i \in 1..Len(props) : Malformed(h, props[i].v)

\* C11: a declaration with a malformed field, at whatever depth and after
\* however many well-formed fields, makes construction raise an error: no
\* schema is produced.
C11_MalformedRejected ==
    AnyMalformed(DeclHeap, originalDefinition.props) => ~schema.ok

\* C12: in a constructed schema every leaf of the canonical tree, at any
\* depth and also when it comes from the array-literal shorthand, has a
\* typeName that is a key of the registry, and no validate call fails to
\* find the predicate of a field.
C12_TypeNamesKnown ==
    schema.ok =>
        /\ \A n \in 1..Len(Leaves) :
              LET type == Attr(Leaves[n].def, "type")
              IN  /\ type.t = "string"
                  /\ \E i \in 1..Len(TypeNames) : TypeNames[i] = type.s
        /\ Validated =>
              call.out.error # "TypeError: DefaultValidations[typeDef] is not a function"

\* C12's case: validate ran the registry predicate of a field declared by
\* the array-literal shorthand, next to a second field
C12_Witness ==
    /\ Validated
    /\ Len(Leaves) = 2
    /\ Attr(Leaves[1].def, "arrayType") # Undefined
    /\ StepsOf("a") = <<Step("a", "type")>>

(***************************************************************************)
(* Properties of the schema across calls.                                  *)
(***************************************************************************)
\* the objects the canonical tree refers to (the values of its defaults)
SchemaObjects == SubSeq(heap, 1, Len(DeclHeap))

C14_FreshOutput ==
    [][ (call'.op = "push" /\ Field(heap, doc, "a") = Undefined) =>
            /\ SchemaObjects' = SchemaObjects
            /\ \A j \in 1..Len(results) :
                  results[j] # call'.arg =>
                      Deep(heap', results[j]) = Deep(heap, results[j]) ]_vars

(***************************************************************************)
(* Properties of the defaults of nested fields.                            *)
(***************************************************************************)
\* the names of the fields of a nested tree that declare a default
WithDefault(fields) ==
    LET picked == SelectSeq(fields, LAMBDA p : Attr(p.v, "default") # Undefined)
    IN  [i \in 1..Len(picked) |-> picked[i].k]

RECURSIVE Populated(_, _, _)
Populated(h, d, keys) ==
    /\ IsMapping(h, d)
    /\ HasOwn(h[d.n], keys[1])
    /\ Len(keys) > 1 => Populated(h, Get(h[d.n], keys[1]), Tail(keys))

\* C16: applyDefaults of an empty document populates every leaf that
\* declares a default, at whatever depth of the schema the leaf sits.
C16_DefaultsAtEveryDepth ==
    (Applied /\ call.before \in {Undefined, DObj("Object", <<>>)}) =>
        \A n \in 1..Len(Leaves) :
            Attr(Leaves[n].def, "default") # Undefined =>
                Populated(heap, call.out, Leaves[n].keys)

\* a plain mapping: an object literal, no array, Date or other instance
IsPlain(h, v) == v.t = "ref" /\ h[v.n].class = "Object"

\* C17: a field of a nested node that declares a default and is missing
\* from the sub-document the input holds for that node (a plain mapping)
\* is filled in the result.
C17_DefaultsInsidePresent ==
    Applied =>
        \A n \in 1..Len(Leaves) :
            LET l == Leaves[n]
            IN  (/\ Len(l.keys) = 2
                 /\ IsPlain(heap, Field(heap, call.arg, l.keys[1]))
                 /\ Attr(l.def, "default") # Undefined
                 /\ Lookup(heap, call.arg, l.keys) = [at |-> "value", value |-> Undefined]) =>
                    Populated(heap, call.out, l.keys)

\* the violations validate reports for the document the last applyDefaults
\* call returned
AfterDefaults == validate(heap, schema.definition, call.out)

\* C18: a field that applyDefaults filled from its declared default holds
\* a value of the field's type (a number declared for a Date field is
\* inserted as a Date): validate of the result reports no 'must be of
\* type' violation for it.
C18_DefaultsConform ==
    Applied =>
        \A n \in 1..Len(Leaves) :
            LET l == Leaves[n]
            IN  (/\ Attr(l.def, "default") # Undefined
                 /\ Lookup(heap, call.arg, l.keys).value = Undefined
                 /\ Populated(heap, call.out, l.keys)) =>
                    \A e \in 1..Len(AfterDefaults.errors) :
                        ~(/\ AfterDefaults.errors[e].field = l.path
                          /\ AfterDefaults.errors[e].check = "type")

(***************************************************************************)
(* Properties of the elements of arrays.                                   *)
(***************************************************************************)
\* C20: in the result validate returns, every element of an array value
\* that does not conform to the element type its field declares has a
\* violation of its own, at the path '<field>[<index>]'.
C20_ElementsValidated ==
    Returns =>
        \A n \in 1..Len(Leaves) :
            LET l     == Leaves[n]
                item  == Attr(l.def, "arrayType")
                lk    == Lookup(heap, call.arg, l.keys)
                items == Items(heap, lk.value)
            IN  (/\ Attr(l.def, "type") = Str("Array")
                 /\ item.t = "string" /\ item.s # "Mixed"
                 /\ lk.at = "value" /\ IsArray(heap, lk.value)) =>
                    \A i \in 1..Len(items) :
                        DefaultValidations(heap, item.s, items[i]) = Returned(FALSE) =>
                            ErrorsOf(l.path \o "[" \o ToString(i - 1) \o "]") # <<>>

(***************************************************************************)
(* Properties of Model.create.                                             *)
(***************************************************************************)
\* What the schema makes of the document create is given, at clock `now`
Defaulted(now) == applyDefaults(heap, schema.definition, doc, now)
Verdict(now) ==
    validate(Defaulted(now).heap, schema.definition, Defaulted(now).result)

\* C19: Model.create applies the defaults and then validates the prepared
\* document before it writes.  When validate reports isValid = FALSE,
\* insertOne is not called and create rejects with the one error
\* 'Validation failed: ' followed by the messages of the violations, in
\* validate's order, joined by ', '.  When validate reports isValid = TRUE,
\* insertOne is given the prepared document as applyDefaults returned it.
C19_CreateValidatesFirst ==
    [][ (call'.op = "create"
            /\ call'.out.error # NotEstablished)
        => \E now \in 0..MaxClock :
             LET v == Verdict(now)
             IN  /\ (~v.threw /\ ~v.isValid) =>
                        /\ call'.out.threw
                        /\ call'.out.error =
                              "Validation failed: " \o JoinMessages(v.errors)
                        /\ call'.out.inserted = <<>>
                        /\ collection' = collection
                 /\ (~v.threw /\ v.isValid) =>
                        /\ ~call'.out.threw
                        /\ Len(call'.out.inserted) = 1
                        /\ collection' = collection \o call'.out.inserted
                        /\ Deep(heap', call'.out.inserted[1]) =
                              Deep(Defaulted(now).heap, Defaulted(now).result)
      ]_vars

\* A create that stored its document is followed by a create that is
\* refused for two violations
C19_Witness ==
    /\ call.op = "create"
    /\ Len(collection) = 1
    /\ call.out.threw
    /\ call.out.inserted = <<>>
    /\ \E now \in 0..MaxClock :
          /\ ~Verdict(now).threw
          /\ Len(Verdict(now).errors) = 2
          /\ call.out.error =
                "Validation failed: " \o JoinMessages(Verdict(now).errors)

(***************************************************************************)
(* Properties of the construction errors.                                  *)
(***************************************************************************)
\* The dotted path of the field at which processDefinition gives up: the
\* first field, in Object.keys order, whose processing raises
RECURSIVE Offending(_, _, _)
Offending(h, props, prefix) ==
    IF props = <<>> THEN ""
    ELSE LET field    == Head(props).k
             fieldDef == Head(props).v
         IN  IF ~processFields(h, <<Head(props)>>, <<>>).threw
             THEN Offending(h, Tail(props), prefix)
             ELSE IF /\ ~IsNullish(fieldDef)
                     /\ ~IsArray(h, fieldDef)
                     /\ TypeOf(h, fieldDef) = "object"
                     /\ ~HasOwn(Literal(h, fieldDef), "type")
             THEN Offending(h, Literal(h, fieldDef).props, prefix \o field \o ".")
             ELSE prefix \o field

\* C21: the message of a construction error identifies the offending field
\* together with the reason: two rejected declarations whose offending
\* fields differ are never rejected with the same message.
C21_ErrorNamesField ==
    ~schema.ok =>
        \A other \in Declarations :
            LET s == NewSchema(DeclHeap, other)
            IN  (~s.ok /\ s.error = schema.error) =>
                    Offending(DeclHeap, other.props, "") =
                        Offending(DeclHeap, originalDefinition.props, "")

(***************************************************************************)
(* Properties of validate at nested nodes.                                 *)
(***************************************************************************)
\* The nested nodes of a tree in declaration order, each with its dotted
\* path, the field names leading to it and its fields
RECURSIVE NestedList(_, _, _)
NestedList(fields, parentPath, keys) ==
    IF fields = <<>> THEN <<>>
    ELSE LET k    == Head(fields).k
             path == IF parentPath # "" THEN parentPath \o "." \o k ELSE k
         IN  (IF IsSubSchema(Head(fields).v)
              THEN << [path |-> path, keys |-> Append(keys, k),
                       fields |-> Head(fields).v.fields] >>
                   \o NestedList(Head(fields).v.fields, path, Append(keys, k))
              ELSE <<>>)
             \o NestedList(Tail(fields), parentPath, keys)

NestedNodes == NestedList(schema.definition, "", <<>>)

\* a value that is present and is no mapping: a scalar, an array, a Date
NonMapping(h, v) ==
    /\ ~IsNullish(v)
    /\ ~(v.t = "ref" /\ h[v.n].class \in {"Object", "NullProto"})

\* C22: when the value at a nested node is present but is no plain mapping,
\* the result validate returns holds exactly one violation for the node,
\* '<path> must be an object', and no violation for a field beneath it.
C22_NonMappingStops ==
    Returns =>
        \A n \in 1..Len(NestedNodes) :
            LET node == NestedNodes[n]
                lk   == Lookup(heap, call.arg, node.keys)
                below == NodePaths(node.fields, node.path)
            IN  (lk.at = "value" /\ NonMapping(heap, lk.value)) =>
                    /\ ErrorsOf(node.path) =
                          <<Violation(node.path, node.path \o " must be an object",
                                      "object")>>
                    /\ \A q \in 1..Len(below) : ErrorsOf(below[q]) = <<>>

(***************************************************************************)
(* Properties of the number constraints.                                   *)
(***************************************************************************)
\* the violations of the last call for a path that one check pushed
ErrorsBy(path, check) ==
    SelectSeq(call.out.errors, LAMBDA e : e.field = path /\ e.check = check)

\* C23: for a Number field with min and/or max and a value v that passed
\* the Number type check, validate reports '<path> must be at least <min>'
\* exactly when v < min and '<path> must be at most <max>' exactly when
\* v > max; a value within the bounds gets neither.
C23_MinMax ==
    Validated =>
        \A n \in 1..Len(Leaves) :
            LET l   == Leaves[n]
                lk  == Lookup(heap, call.arg, l.keys)
                v   == lk.value
                min == Attr(l.def, "min")
                max == Attr(l.def, "max")
            IN  (/\ Attr(l.def, "type") = Str("Number")
                 /\ lk.at = "value"
                 /\ v.t = "number" /\ v.s # "NaN") =>
                    /\ ErrorsBy(l.path, "min") =
                          IF min.t = "number" /\ v.n < min.n
                          THEN <<Violation(l.path,
                                    l.path \o " must be at least " \o ToString(min.n),
                                    "min")>>
                          ELSE <<>>
                    /\ ErrorsBy(l.path, "max") =
                          IF max.t = "number" /\ v.n > max.n
                          THEN <<Violation(l.path,
                                    l.path \o " must be at most " \o ToString(max.n),
                                    "max")>>
                          ELSE <<>>

(***************************************************************************)
(* Properties of the Connection.                                           *)
(***************************************************************************)
\* In the calls that have ended, a connect succeeded and no close ended
\* after it
Established(history) ==
    \E i \in 1..Len(history) :
        /\ history[i].op = "connect" /\ history[i].ok
        /\ \A j \in (i + 1)..Len(history) : history[j].op # "close"

\* the call that ends in this step, if one does
Ends(op) ==
    /\ Len(connection'.history) = Len(connection.history) + 1
    /\ connection'.history[Len(connection'.history)].op = op

Ended == connection'.history[Len(connection'.history)]

UpdateCalled == call.op \in {"updateById", "updateOne", "updateMany"}

\* C25: updateById, updateOne and updateMany give the update to the store
\* as it is when one of its top-level keys starts with '$', and wrapped as
\* {$set: update} otherwise; the filter and the options go to the store as
\* given.
C25_UpdateWrapped ==
    (UpdateCalled /\ ~call.out.threw) =>
        /\ Len(call.out.sent) = 1
        /\ LET sent   == call.out.sent[1]
               update == call.arg.update
               dollar == \E i \in 1..Len(update.props) :
                            /\ update.props[i].k # ""
                            /\ SubSeq(update.props[i].k, 1, 1) = "$"
           IN  /\ sent.method = IF call.op = "updateMany" THEN "updateMany"
                                ELSE "updateOne"
               /\ sent.update = IF dollar THEN update
                                ELSE DObj("Object", <<Prop("$set", update)>>)
               /\ sent.options = IF call.arg.options = Undefined
                                 THEN DObj("Object", <<>>) ELSE call.arg.options
               /\ call.op # "updateById" => sent.filter = call.arg.target

\* an update whose second key is an operator went to updateMany as it is
C25_Witness ==
    /\ call.op = "updateMany"
    /\ ~call.out.threw
    /\ Len(call.arg.update.props) = 2
    /\ call.arg.update.props[1].k = "name"
    /\ call.out.sent[1].update = call.arg.update
    /\ call.arg.options # Undefined

(***************************************************************************)
(* Properties of required fields at any depth.                             *)
(***************************************************************************)
\* C26: when validate returns isValid = TRUE for a document, every leaf
\* declared required, at whatever depth, has a value in the document that
\* is neither undefined nor null; this also where a sub-document two or
\* more levels above the leaf is missing.
C26_ValidHasRequired ==
    (Returns /\ call.out.isValid) =>
        \A n \in 1..Len(Leaves) :
            LET l  == Leaves[n]
                lk == Lookup(heap, call.arg, l.keys)
            IN  Attr(l.def, "required") = Bool(TRUE) =>
                    lk.at = "value" /\ ~IsNullish(lk.value)

(***************************************************************************)
(* Properties of Model.createMany.                                         *)
(***************************************************************************)
\* the document d fails validation once its defaults are applied, at every
\* time of the clock
Refused(d) ==
    \A now \in 0..MaxClock :
        LET prepared == applyDefaults(heap, schema.definition, d, now)
            v == validate(prepared.heap, schema.definition, prepared.result)
        IN  v.threw \/ ~v.isValid

\* C27: createMany validates every document of the batch before it writes
\* any: when a document of the batch fails validation, insertMany is not
\* called and no document of the batch reaches the store.
C27_BatchAllOrNothing ==
    [][ (/\ call'.op = "createMany"
         /\ call'.arg.t = "array"
         /\ \E i \in 1..Len(call'.arg.items) : Refused(call'.arg.items[i]))
        => /\ call'.out.threw
           /\ call'.out.inserted = <<>>
           /\ collection' = collection
      ]_vars

\* a batch whose first document is valid and whose second is not was
\* refused, with the store still empty
C27_Witness ==
    /\ call.op = "createMany"
    /\ call.arg.t = "array"
    /\ Len(call.arg.items) = 2
    /\ ~Refused(call.arg.items[1])
    /\ Refused(call.arg.items[2])
    /\ call.out.threw
    /\ call.out.error # NotEstablished
    /\ collection = <<>>

(***************************************************************************)
(* Properties of the ConsoleLogger.                                        *)
(***************************************************************************)
\* the priority of a level: error 0 < warn 1 < info 2 < debug 3
Priority(level) ==
    CASE level = "error" -> 0 [] level = "warn" -> 1
      [] level = "info"  -> 2 [] level = "debug" -> 3

\* the step is a call of the logging method named
Logs(method) == call'.op = method /\ (call' # call \/ logger' # logger)

\* the step gave one line to the console
Emits == Len(logger'.written) = Len(logger.written) + 1

\* C28: a warn, info or debug message is emitted exactly when its priority
\* is at most the priority of the logger's current level, whichever of the
\* four levels that is; an error message is always emitted; setLevel with
\* an unknown level returns false and leaves the level as it was.
C28_LevelFilter ==
    [][ /\ \A method \in {"warn", "info", "debug"} :
              (/\ Logs(method)
               /\ logger.level \in {"error", "warn", "info", "debug"}) =>
                    (Emits <=> Priority(method) <= Priority(logger.level))
        /\ Logs("error") => Emits
        /\ (/\ Logs("setLevel")
            /\ call'.arg.s \notin {"error", "warn", "info", "debug"}) =>
                 /\ call'.out = Bool(FALSE)
                 /\ logger'.level = logger.level
      ]_vars

(***************************************************************************)
(* Properties of the Connection's clients.                                 *)
(***************************************************************************)
\* every call made on the Connection has ended
AllEnded ==
    \A i \in 1..Len(connection.calls) : connection.calls[i].pc # "await"

\* C29: after any sequence of connect and close calls, failed connects
\* included, a db that is set was obtained from the Connection's current
\* client: getDb never returns the database of an earlier client.
C29_DbOfCurrentClient ==
    (AllEnded /\ connection.db # Null) => connection.db.n = connection.client

\* C30: under any interleaving of connect and close calls, once all calls
\* have ended every client the Connection created is its current client or
\* has been closed: no client whose connect succeeded is left open and
\* unreferenced (a client whose connect failed was never opened).
C30_NoClientLeftOpen ==
    AllEnded =>
        \A c \in 1..Len(connection.clients) :
            connection.clients[c] = "open" => c = connection.client

====
